---- MODULE Spec2Model ----
(***************************************************************************)
(* Model of app/src/lib/git/git-diff.ts (class GitDiff): the two diff      *)
(* requests getCommitDiff and getWorkingDirectoryDiff, the promise chain   *)
(* git(...).then(diffFromRawDiffOutput) each of them returns, and the      *)
(* NUL split done by diffFromRawDiffOutput.                                *)
(*                                                                         *)
(* A request is a slot r.  Its promise chain is followed step by step:     *)
(*   idle -> running      the request function built args/opts, called git *)
(*   running -> running   the git process writes to its standard output    *)
(*   running -> fulfilled the process closed with an accepted exit code    *)
(*   running -> rejected  the process closed with any other exit code      *)
(*   fulfilled -> done    the .then callback ran diffFromRawDiffOutput     *)
(* Text is a sequence of characters; "NUL" stands for the character \0.    *)
(***************************************************************************)
EXTENDS Integers, Sequences, FiniteSets, TLC

VARIABLES pc, request, args, opts, cwd, stdout, exitCode, patch, outcome,
          gitCalls, parseCalls, awaited

vars == <<pc, request, args, opts, cwd, stdout, exitCode, patch, outcome,
          gitCalls, parseCalls, awaited>>

(* ---------------------------------------------------------------- bounds *)

\* number of request slots
NumRequests == 2

\* longest standard output the git process writes in the one-request model
MaxOut == 4

Requests == 1 .. NumRequests

(* ------------------------------------------------------------ input sets *)

NUL == "NUL"

\* characters of a tool response: the separator, a character of the raw
\* section, a character of the patch text
Chars == {NUL, "r", "d"}

\* exit codes of the git process: success, differences found, usage error,
\* fatal error
ExitCodes == {0, 1, 2, 128}

FileStatus == {"New", "Modified", "Deleted", "Renamed"}

Paths == {"foo.txt", "HEAD"}

Files == [path : Paths, status : FileStatus]

Repositories == {[path |-> "/repo"], [path |-> "/other"]}

Commitishes == {"abc123", "HEAD~1"}

CommitRequests ==
  [kind : {"commit"}, repository : Repositories, file : Files,
   commitish : Commitishes]

WorkingDirectoryRequests ==
  [kind : {"workdir"}, repository : Repositories, file : Files,
   commitish : {""}]

NoRequest ==
  [kind |-> "none", repository |-> [path |-> ""],
   file |-> [path |-> "", status |-> "Modified"], commitish |-> ""]

\* the inputs of the model with several requests in flight
ConcRequests ==
  { q \in CommitRequests \cup WorkingDirectoryRequests :
      /\ q.repository.path = "/repo"
      /\ q.file.path = "foo.txt"
      /\ q.commitish \in {"", "abc123"}
      /\ \/ q.kind = "workdir" /\ q.file.status \in {"New", "Renamed"}
         \/ q.kind = "commit" /\ q.file.status = "Modified" }

\* the complete responses of the model with one request
Responses == UNION { [1 .. n -> Chars] : n \in 0 .. MaxOut }

\* the complete responses of the model with several requests in flight
ConcResponses == { <<"r", NUL, "d">>, <<"d">> }

(* -------------------------------------------------- Invocation Builder *)

Undefined == [defined |-> FALSE, successExitCodes |-> {}]

\* CommitArgs without the restriction to one log entry
CommitArgsAllEntries(file, commitish) ==
  <<"log", commitish, "-m", "--first-parent", "--patch-with-raw", "-z",
    "--", file.path>>

CommitArgs(file, commitish) ==
  <<"log", commitish, "-m", "-1", "--first-parent", "--patch-with-raw",
    "-z", "--", file.path>>

\* WorkingDirectoryArgs with the two compared paths of a New file exchanged
WorkingDirectoryArgsSwapped(file) ==
  IF file.status = "New"
    THEN <<"diff", "--no-index", "--patch-with-raw", "-z", "--",
           file.path, "/dev/null">>
  ELSE IF file.status = "Renamed"
    THEN <<"diff", "--patch-with-raw", "-z", "--", file.path>>
  ELSE <<"diff", "HEAD", "--patch-with-raw", "-z", "--", file.path>>

\* WorkingDirectoryArgs without the branch for Renamed files
WorkingDirectoryArgsRenamedHead(file) ==
  IF file.status = "New"
    THEN <<"diff", "--no-index", "--patch-with-raw", "-z", "--",
           "/dev/null", file.path>>
  ELSE <<"diff", "HEAD", "--patch-with-raw", "-z", "--", file.path>>

\* WorkingDirectoryArgs whose last branch compares with the index
WorkingDirectoryArgsNoHead(file) ==
  IF file.status = "New"
    THEN <<"diff", "--no-index", "--patch-with-raw", "-z", "--",
           "/dev/null", file.path>>
  ELSE <<"diff", "--patch-with-raw", "-z", "--", file.path>>

\* WorkingDirectoryArgs whose branch for Renamed files leaves out -z
WorkingDirectoryArgsNoZ(file) ==
  IF file.status = "New"
    THEN <<"diff", "--no-index", "--patch-with-raw", "-z", "--",
           "/dev/null", file.path>>
  ELSE IF file.status = "Renamed"
    THEN <<"diff", "--patch-with-raw", "--", file.path>>
  ELSE <<"diff", "HEAD", "--patch-with-raw", "-z", "--", file.path>>

WorkingDirectoryArgs(file) ==
  IF file.status = "New"
    THEN <<"diff", "--no-index", "--patch-with-raw", "-z", "--",
           "/dev/null", file.path>>
  ELSE IF file.status = "Renamed"
    THEN <<"diff", "--patch-with-raw", "-z", "--", file.path>>
  ELSE <<"diff", "HEAD", "--patch-with-raw", "-z", "--", file.path>>

\* WorkingDirectoryOpts that never sets opts
WorkingDirectoryOptsUnset(file) == Undefined

\* WorkingDirectoryOpts that accepts exit code 1 for every status
WorkingDirectoryOptsAlways(file) ==
  [defined |-> TRUE, successExitCodes |-> {0, 1}]

WorkingDirectoryOpts(file) ==
  IF file.status = "New"
    THEN [defined |-> TRUE, successExitCodes |-> {0, 1}]
    ELSE Undefined

(* ------------------------------------------------------- Process Runner *)

\* git(args, path, opts): the exit codes that fulfil the promise
SuccessExitCodes(o) == IF o.defined THEN o.successExitCodes ELSE {0}

GitError(code) == [kind |-> "GitError", exitCode |-> code]

(* --------------------------------------------------- Raw Output Splitter *)

\* String.prototype.split with the separator "\0"
RECURSIVE split(_)
split(s) ==
  IF \A i \in 1 .. Len(s) : s[i] # NUL
    THEN <<s>>
    ELSE LET i == CHOOSE k \in 1 .. Len(s) :
                    /\ s[k] = NUL
                    /\ \A j \in 1 .. (k - 1) : s[j] # NUL
         IN  <<SubSeq(s, 1, i - 1)>> \o split(SubSeq(s, i + 1, Len(s)))

\* new DiffParser().parse(text): a fresh parser, its result a Diff of text
Parse(text) == [kind |-> "Diff", text |-> text]

\* PatchText that takes the first piece
PatchTextFirst(result) ==
  LET pieces == split(result)
  IN  pieces[1]

\* the text diffFromRawDiffOutput hands to the parser
PatchText(result) ==
  LET pieces == split(result)
  IN  pieces[Len(pieces)]

\* DiffFromRawDiffOutput with one parser shared by all requests, which keeps
\* the text it was given before
DiffFromRawDiffOutputSharedParser(result) ==
  LET before == { q \in DOMAIN pc : pc[q] = "done" }
  IN  IF before = {}
        THEN Parse(PatchText(result))
        ELSE Parse(patch[CHOOSE q \in before : TRUE] \o PatchText(result))

DiffFromRawDiffOutput(result) == Parse(PatchText(result))

(* ---------------------------------------------------------------- state *)

Pending == [kind |-> "pending"]

Init ==
  /\ pc = [r \in Requests |-> "idle"]
  /\ request = [r \in Requests |-> NoRequest]
  /\ args = [r \in Requests |-> <<>>]
  /\ opts = [r \in Requests |-> Undefined]
  /\ cwd = [r \in Requests |-> ""]
  /\ stdout = [r \in Requests |-> <<>>]
  /\ exitCode = [r \in Requests |-> -1]
  /\ patch = [r \in Requests |-> <<>>]
  /\ outcome = [r \in Requests |-> Pending]
  /\ gitCalls = [r \in Requests |-> 0]
  /\ parseCalls = [r \in Requests |-> 0]
  /\ awaited = [r \in Requests |-> TRUE]

(* -------------------------------------------------------------- actions *)

\* git(args, path, opts) is called: the process starts, the promise is pending
CallGit(r, q, a, o) ==
  /\ pc[r] = "idle"
  /\ pc' = [pc EXCEPT ![r] = "running"]
  /\ request' = [request EXCEPT ![r] = q]
  /\ args' = [args EXCEPT ![r] = a]
  /\ opts' = [opts EXCEPT ![r] = o]
  /\ cwd' = [cwd EXCEPT ![r] = q.repository.path]
  /\ gitCalls' = [gitCalls EXCEPT ![r] = @ + 1]
  /\ UNCHANGED <<stdout, exitCode, patch, outcome, parseCalls, awaited>>

GetCommitDiff(r, q) ==
  /\ q.kind = "commit"
  /\ CallGit(r, q, CommitArgs(q.file, q.commitish), Undefined)

GetWorkingDirectoryDiff(r, q) ==
  /\ q.kind = "workdir"
  /\ CallGit(r, q, WorkingDirectoryArgs(q.file), WorkingDirectoryOpts(q.file))

IsPrefix(s, t) == Len(s) <= Len(t) /\ SubSeq(t, 1, Len(s)) = s

\* the running process writes one character to its standard output, on its
\* way to one of the given complete responses
GitStdout(r, c, responses) ==
  /\ pc[r] = "running"
  /\ \E t \in responses : IsPrefix(Append(stdout[r], c), t)
  /\ stdout' = [stdout EXCEPT ![r] = Append(@, c)]
  /\ UNCHANGED <<pc, request, args, opts, cwd, exitCode, patch, outcome,
                 gitCalls, parseCalls, awaited>>

\* the rejection of git's promise as the promise returned by .then sees it
\* (.then is given no rejection handler)
ThenRejected(err) == err

\* the process closes: git's promise is fulfilled with the complete standard
\* output, or rejected
GitClose(r, code) ==
  /\ pc[r] = "running"
  /\ exitCode' = [exitCode EXCEPT ![r] = code]
  /\ IF code \in SuccessExitCodes(opts[r])
       THEN /\ pc' = [pc EXCEPT ![r] = "fulfilled"]
            /\ UNCHANGED outcome
       ELSE /\ pc' = [pc EXCEPT ![r] = "rejected"]
            /\ outcome' = [outcome EXCEPT ![r] = ThenRejected(GitError(code))]
  /\ UNCHANGED <<request, args, opts, cwd, stdout, patch, gitCalls,
                 parseCalls, awaited>>

\* ThenReady of a callback attached to the output stream, not to the promise
ThenReadyEarly(r) == pc[r] \in {"running", "fulfilled"}

\* when the .then callback of a request runs
ThenReady(r) == pc[r] = "fulfilled"

\* value => this.diffFromRawDiffOutput(value.stdout)
ThenCallback(r) ==
  /\ ThenReady(r)
  /\ pc' = [pc EXCEPT ![r] = "done"]
  /\ patch' = [patch EXCEPT ![r] = PatchText(stdout[r])]
  /\ parseCalls' = [parseCalls EXCEPT ![r] = @ + 1]
  /\ outcome' = [outcome EXCEPT ![r] = DiffFromRawDiffOutput(stdout[r])]
  /\ UNCHANGED <<request, args, opts, cwd, stdout, exitCode, gitCalls,
                 awaited>>

\* the caller stops awaiting the promise of a pending request
Abandon(r) ==
  /\ pc[r] = "running"
  /\ awaited[r]
  /\ awaited' = [awaited EXCEPT ![r] = FALSE]
  /\ UNCHANGED <<pc, request, args, opts, cwd, stdout, exitCode, patch,
                 outcome, gitCalls, parseCalls>>

(* ------------------------------------------------------- specifications *)

\* one request, over all inputs, outputs and exit codes
Next ==
  \/ \E q \in CommitRequests : GetCommitDiff(1, q)
  \/ \E q \in WorkingDirectoryRequests : GetWorkingDirectoryDiff(1, q)
  \/ \E c \in Chars : GitStdout(1, c, Responses)
  \/ \E code \in ExitCodes : GitClose(1, code)
  \/ ThenCallback(1)
  \/ Abandon(1)

Spec == Init /\ [][Next]_vars

\* several requests in flight, their steps interleaved in any order
NextConc ==
  \E r \in Requests :
    \/ \E q \in ConcRequests : GetCommitDiff(r, q)
    \/ \E q \in ConcRequests : GetWorkingDirectoryDiff(r, q)
    \/ \E c \in Chars : GitStdout(r, c, ConcResponses)
    \/ \E code \in ExitCodes : GitClose(r, code)
    \/ ThenCallback(r)

SpecConc == Init /\ [][NextConc]_vars

(* --------------------------------------------- vocabulary of the claims *)

Started(r) == pc[r] # "idle"

Closed(r) == exitCode[r] # -1

IsCommit(r) == Started(r) /\ request[r].kind = "commit"

IsWorkdir(r) == Started(r) /\ request[r].kind = "workdir"

StatusOf(r) == request[r].file.status

PathOf(r) == request[r].file.path

\* position of the first "--" of an argument list (0 when there is none)
SepIndex(a) ==
  IF \E i \in 1 .. Len(a) : a[i] = "--"
    THEN CHOOSE i \in 1 .. Len(a) :
           a[i] = "--" /\ \A j \in 1 .. (i - 1) : a[j] # "--"
    ELSE 0

\* the arguments before the separator, and the paths after it
Options(a) == { a[i] : i \in 1 .. (SepIndex(a) - 1) }

PathsAfter(a) == SubSeq(a, SepIndex(a) + 1, Len(a))

\* the part of a text after its last NUL, the whole text when it has none
AfterLastNUL(s) ==
  LET nuls == { i \in 1 .. Len(s) : s[i] = NUL }
  IN  IF nuls = {} THEN s
      ELSE SubSeq(s, (CHOOSE i \in nuls : \A j \in nuls : j <= i) + 1, Len(s))

NumberOfNULs(s) == Cardinality({ i \in 1 .. Len(s) : s[i] = NUL })

(* --------------------------------------------------------------- claims *)

C1_WitnessFailure ==
  /\ IsWorkdir(1) /\ StatusOf(1) = "New"
  /\ exitCode[1] = 2 /\ pc[1] = "rejected"

\* C2: the text handed to the parser is the part of the response after its
\* last NUL, the whole response when it has no NUL; it holds no NUL, and
\* the empty response gives the empty text.
C2_LastSegment ==
  \A r \in Requests :
    pc[r] = "done" =>
      /\ patch[r] = AfterLastNUL(stdout[r])
      /\ NumberOfNULs(stdout[r]) = 0 => patch[r] = stdout[r]
      /\ \A i \in 1 .. Len(patch[r]) : patch[r][i] # NUL
      /\ stdout[r] = <<>> => patch[r] = <<>>
      /\ outcome[r] = [kind |-> "Diff", text |-> AfterLastNUL(stdout[r])]

C2_Witness ==
  /\ pc[1] = "done"
  /\ NumberOfNULs(stdout[1]) >= 2
  /\ Len(patch[1]) = 1
  /\ stdout[1][1] # NUL

\* C3: for a New file the arguments are the no-index comparison of
\* /dev/null with the file's path and the accepted exit codes are exactly
\* {0, 1}; for no other status do the accepted exit codes passed contain 1.
C3_NewInvocation ==
  \A r \in Requests :
    IsWorkdir(r) =>
      IF StatusOf(r) = "New"
        THEN /\ args[r][1] = "diff"
             /\ "--no-index" \in Options(args[r])
             /\ "HEAD" \notin Options(args[r])
             /\ PathsAfter(args[r]) = <<"/dev/null", PathOf(r)>>
             /\ opts[r].defined
             /\ opts[r].successExitCodes = {0, 1}
        ELSE ~(opts[r].defined /\ 1 \in opts[r].successExitCodes)

C3_Witness ==
  /\ IsWorkdir(1) /\ StatusOf(1) = "New" /\ PathOf(1) = "HEAD"
  /\ Len(args[1]) = 7

C5_DefaultAgainstHead ==
  \A r \in Requests :
    IsWorkdir(r) =>
      LET noIndex == "--no-index" \in Options(args[r])
          head    == "HEAD" \in Options(args[r])
      IN  /\ ~(noIndex /\ head)
          /\ noIndex <=> StatusOf(r) = "New"
          /\ head <=> StatusOf(r) \notin {"New", "Renamed"}
          /\ StatusOf(r) \notin {"New", "Renamed"} =>
               /\ args[r][1] = "diff"
               /\ args[r][2] = "HEAD"
               /\ PathsAfter(args[r]) = <<PathOf(r)>>

C5_Witness ==
  /\ IsWorkdir(1) /\ StatusOf(1) = "Deleted" /\ PathOf(1) = "foo.txt"
  /\ args[1][2] = "HEAD"

\* C6: for every commit-relative request the arguments are a log invocation
\* naming the commit-ish, with -1 and --first-parent before the separator
\* and the file's path as the only path after it, whatever the status.
C6_CommitInvocation ==
  \A r \in Requests :
    IsCommit(r) =>
      /\ args[r][1] = "log"
      /\ args[r][2] = request[r].commitish
      /\ "-1" \in Options(args[r])
      /\ "--first-parent" \in Options(args[r])
      /\ PathsAfter(args[r]) = <<PathOf(r)>>
      /\ \A st \in FileStatus :
           args[r] = CommitArgs([request[r].file EXCEPT !.status = st],
                                request[r].commitish)

C6_Witness ==
  /\ IsCommit(1) /\ StatusOf(1) = "New"
  /\ request[1].commitish = "abc123" /\ PathOf(1) = "foo.txt"
  /\ Len(args[1]) = 9

\* C7: a commit-relative request and a working-directory request of a
\* status other than New pass no accepted exit codes, so that every nonzero
\* exit code rejects the request and no Diff is produced.
C7_DefaultExitCodes ==
  \A r \in Requests :
    (IsCommit(r) \/ (IsWorkdir(r) /\ StatusOf(r) # "New")) =>
      /\ ~opts[r].defined
      /\ (Closed(r) /\ exitCode[r] # 0) =>
           /\ pc[r] = "rejected"
           /\ parseCalls[r] = 0
           /\ outcome[r].kind = "GitError"
      /\ exitCode[r] = 0 => pc[r] \in {"fulfilled", "done"}

C7_Witness ==
  /\ IsWorkdir(1) /\ StatusOf(1) = "Renamed"
  /\ exitCode[1] = 1 /\ pc[1] = "rejected"

C7_WitnessCommit ==
  IsCommit(1) /\ exitCode[1] = 1 /\ pc[1] = "rejected"

\* C8: every working-directory invocation has --patch-with-raw and -z
\* before the separator, the file's path as its last argument, after the
\* separator, and the repository's path as working directory.
C8_WorkdirCommonArgs ==
  \A r \in Requests :
    IsWorkdir(r) =>
      /\ "--patch-with-raw" \in Options(args[r])
      /\ "-z" \in Options(args[r])
      /\ SepIndex(args[r]) > 0
      /\ SepIndex(args[r]) < Len(args[r])
      /\ args[r][Len(args[r])] = PathOf(r)
      /\ cwd[r] = request[r].repository.path

C8_Witness ==
  /\ IsWorkdir(1) /\ StatusOf(1) = "New"
  /\ request[1].repository.path = "/other" /\ cwd[1] = "/other"

\* C9: the tool is invoked once per request; the parser runs at most once,
\* and only after the tool closed with an accepted exit code, on the text
\* after the last NUL of the complete standard output; while the tool runs
\* (abandoned or not) and after it failed the parser has not run, and the
\* caller's promise is rejected with the tool's own error.
C9_PipelineOrder ==
  \A r \in Requests :
    /\ gitCalls[r] = (IF Started(r) THEN 1 ELSE 0)
    /\ parseCalls[r] = (IF pc[r] = "done" THEN 1 ELSE 0)
    /\ pc[r] = "done" =>
         /\ Closed(r)
         /\ exitCode[r] \in SuccessExitCodes(opts[r])
         /\ patch[r] = AfterLastNUL(stdout[r])
    /\ pc[r] \in {"idle", "running"} => ~Closed(r)
    /\ pc[r] # "done" => patch[r] = <<>>
    /\ pc[r] \in {"idle", "running", "fulfilled"} => outcome[r] = Pending
    /\ pc[r] = "rejected" =>
         /\ exitCode[r] \notin SuccessExitCodes(opts[r])
         /\ outcome[r] = GitError(exitCode[r])

\* C9, the steps: the standard output of a closed tool no longer changes,
\* and a request goes through its steps in order.
C9_StepOrder ==
  [][\A r \in Requests :
       /\ Closed(r) => (stdout'[r] = stdout[r] /\ exitCode'[r] = exitCode[r])
       /\ pc'[r] # pc[r] =>
            <<pc[r], pc'[r]>> \in { <<"idle", "running">>,
                                    <<"running", "fulfilled">>,
                                    <<"running", "rejected">>,
                                    <<"fulfilled", "done">> }
       /\ parseCalls'[r] # parseCalls[r] => pc[r] = "fulfilled"]_vars

\* C9: the order of the steps of a request, in every state and every step
C9_Pipeline == []C9_PipelineOrder /\ C9_StepOrder

C9_Witness ==
  /\ pc[1] = "done" /\ ~awaited[1]
  /\ Len(stdout[1]) = 3 /\ stdout[1][2] = NUL /\ parseCalls[1] = 1

C9_WitnessFailure ==
  /\ pc[1] = "rejected" /\ ~awaited[1] /\ Len(stdout[1]) = 2

\* C10: with several requests in flight, whatever the order of their steps,
\* the arguments, accepted exit codes and working directory of each are
\* those of its own inputs, it is fulfilled or rejected by its own exit
\* code, and its parsed text is that of its own standard output.
C10_Isolation ==
  \A r \in Requests :
    Started(r) =>
      /\ args[r] = (IF request[r].kind = "commit"
                      THEN CommitArgs(request[r].file, request[r].commitish)
                      ELSE WorkingDirectoryArgs(request[r].file))
      /\ opts[r] = (IF request[r].kind = "commit"
                      THEN Undefined
                      ELSE WorkingDirectoryOpts(request[r].file))
      /\ cwd[r] = request[r].repository.path
      /\ Closed(r) =>
           (pc[r] = "rejected" <=>
              exitCode[r] \notin SuccessExitCodes(opts[r]))
      /\ pc[r] = "rejected" => outcome[r] = GitError(exitCode[r])
      /\ pc[r] = "done" =>
           /\ patch[r] = AfterLastNUL(stdout[r])
           /\ outcome[r] = [kind |-> "Diff", text |-> AfterLastNUL(stdout[r])]

\* two requests for the same file, finished in the reverse order of their
\* start, with different outputs and different outcomes
C10_Witness ==
  /\ pc[1] = "done" /\ pc[2] = "rejected"
  /\ request[1].file.path = request[2].file.path
  /\ request[1].kind = "workdir" /\ request[2].kind = "commit"
  /\ stdout[1] = <<"r", NUL, "d">> /\ stdout[2] = <<"d">>
  /\ exitCode[1] = 1 /\ exitCode[2] = 1

====
